---------------------------- MODULE Spec2Model ----------------------------
(***************************************************************************)
(* A model of the group / curve trait contract of src/src/curve.rs and     *)
(* src/src/cofactor.rs.                                                    *)
(*                                                                         *)
(* The traits leave the curve arithmetic to an implementor.  The model     *)
(* instantiates them with one small implementor: the short Weierstrass     *)
(* curve  y^2 = x^3 + 4  over F_19 in Jacobian coordinates.  Its group has *)
(* 21 = 3 * 7 points (cofactor h = 3, prime-order subgroup r = 7).  The    *)
(* provided method bodies (batch_normalize, is_small_order, the            *)
(* Coordinates constructors and selections) are translated from the        *)
(* source and run on top of that implementor.                              *)
(***************************************************************************)
EXTENDS Integers, Sequences, FiniteSets, TLC

(***************************************************************************)
(* State.  Five machines share the module; in each specification one of    *)
(* them runs and the others rest in their initial state.                   *)
(***************************************************************************)
VARIABLES
    identityEncodable,  \* whether the implementor's Repr can encode the identity
    kind, val,          \* point machine: a register holding an affine or projective point
    unchecked,          \*   whether val derives from an "unchecked" entry point
    last,               \*   the last conversion made
    bp, bq,             \* batch machine: the slices passed to batch_normalize
    bq0, bstatus,       \*   q before the call, and how the call ended
    ckind, ca, cb,      \* coordinates machine: two Coordinates / CoordinatesJac values
    cr,                 \*   the result of the last conditional_select
    cfK,                \* cofactor machine: the implementor's fixed multiplier
    cfP, cfRes,         \*   an element of the full group, the last result
    ep, enc,            \* encoding machine: a point, an encoding
    fromPoint, dec      \*   whether enc = to_bytes(ep), the last decoding of enc

pointVars == <<kind, val, unchecked, last>>

batchVars == <<bp, bq, bq0, bstatus>>

coordVars == <<ckind, ca, cb, cr>>

cofVars == <<cfK, cfP, cfRes>>

encVars == <<ep, enc, fromPoint, dec>>

vars == <<identityEncodable, pointVars, batchVars, coordVars, cofVars, encVars>>

(***************************************************************************)
(* Base field  (CurveAffine::Base : ff::Field)                             *)
(***************************************************************************)
P == 19

Fp == 0 .. (P - 1)

FAdd(a, b) == (a + b) % P

FSub(a, b) == (a + P - b) % P

FNeg(a) == (P - a) % P

FMul(a, b) == (a * b) % P

FSq(a) == FMul(a, a)

FCube(a) == FMul(a, FSq(a))

RECURSIVE FPow(_, _)
FPow(a, e) == IF e = 0 THEN 1 ELSE FMul(a, FPow(a, e - 1))

\* ff::Field::invert followed by unwrap_or(zero): a^(P-2), which is 0 at 0.
FInv(a) == FPow(a, P - 2)

\* <C::Base as Default>::default(): the zero element
FDefault == 0

\* subtle: <C::Base as ConditionallySelectable>::conditional_select(a, b, choice)
\* returns a when choice = 0 and b when choice = 1
F_conditional_select(a, b, choice) == IF choice = 1 THEN b ELSE a

Choices == {0, 1}

\* CtOption<T>: the validity flag and the payload are both materialised
Some(v) == [is_some |-> TRUE, value |-> v]

None(v) == [is_some |-> FALSE, value |-> v]

(***************************************************************************)
(* Curve constants  (CurveAffine::a, CurveAffine::b)                       *)
(***************************************************************************)
CurveA == 0

CurveB == 4

\* an element of multiplicative order 3 of the base field, used by endo
Zeta == 7

\* cofactor and prime subgroup order of the curve group (h * r = 21)
CofactorH == 3

SubgroupR == 7

(***************************************************************************)
(* Affine points: (x, y) or the point at infinity                          *)
(***************************************************************************)
AffinePoint(x, y) == [x |-> x, y |-> y, inf |-> FALSE]

AffineIdentity == [x |-> 0, y |-> 0, inf |-> TRUE]

affine_is_identity(p) == p.inf

\* y^2 = x^3 + a x + b
OnCurveXY(x, y) == FSq(y) = FAdd(FAdd(FCube(x), FMul(CurveA, x)), CurveB)

\* CurveAffine::is_on_curve
affine_is_on_curve(p) == p.inf \/ OnCurveXY(p.x, p.y)

\* CurveAffine::from_coordinates
affine_from_coordinates(x, y) ==
    IF OnCurveXY(x, y) THEN Some(AffinePoint(x, y)) ELSE None(AffineIdentity)

\* CurveAffine::to_curve
to_curve(p) ==
    IF p.inf THEN [x |-> 1, y |-> 1, z |-> 0] ELSE [x |-> p.x, y |-> p.y, z |-> 1]

\* CurveAffine::endo
affine_endo(p) == IF p.inf THEN p ELSE AffinePoint(FMul(Zeta, p.x), p.y)

(***************************************************************************)
(* Projective (Jacobian) points: (x, y, z) stands for (x/z^2, y/z^3),      *)
(* z = 0 for the identity                                                  *)
(***************************************************************************)
JacPoint(x, y, z) == [x |-> x, y |-> y, z |-> z]

\* Group::identity: the point at infinity, (1 : 1 : 0) in Jacobian coordinates
identity == JacPoint(1, 1, 0)

\* Group::is_identity
is_identity(p) == p.z = 0

\* y^2 = x^3 + a x z^4 + b z^6
OnCurveXYZ(x, y, z) ==
    FSq(y) = FAdd(FAdd(FCube(x), FMul(CurveA, FMul(x, FSq(FSq(z))))),
                  FMul(CurveB, FSq(FCube(z))))

\* Curve::is_on_curve
is_on_curve(p) == OnCurveXYZ(p.x, p.y, p.z)

\* Curve::from_coordinates
from_coordinates(x, y, z) ==
    IF OnCurveXYZ(x, y, z) THEN Some(JacPoint(x, y, z)) ELSE None(identity)

\* Faulty variant: the identity is not special-cased, the inverse of z = 0 is used.
to_affine_NoIdentityCase(p) ==
    LET zi == FInv(p.z)
    IN  AffinePoint(FMul(p.x, FSq(zi)), FMul(p.y, FCube(zi)))

\* Faulty variant: x is divided by z instead of z^2.
to_affine_WrongPower(p) ==
    IF p.z = 0 THEN AffineIdentity
    ELSE LET zi == FInv(p.z)
         IN  AffinePoint(FMul(p.x, zi), FMul(p.y, FCube(zi)))

\* Curve::to_affine
to_affine(p) ==
    IF p.z = 0 THEN AffineIdentity
    ELSE LET zi == FInv(p.z)
         IN  AffinePoint(FMul(p.x, FSq(zi)), FMul(p.y, FCube(zi)))

\* Eq for projective points: equality of the points they stand for
PEq(p, q) ==
    IF p.z = 0 \/ q.z = 0 THEN p.z = 0 /\ q.z = 0
    ELSE /\ FMul(p.x, FSq(q.z)) = FMul(q.x, FSq(p.z))
         /\ FMul(p.y, FCube(q.z)) = FMul(q.y, FCube(p.z))

\* Curve::double
double(p) ==
    IF p.z = 0 THEN identity
    ELSE LET XX == FSq(p.x)
             YY == FSq(p.y)
             YYYY == FSq(YY)
             ZZ == FSq(p.z)
             S == FMul(2, FSub(FSub(FSq(FAdd(p.x, YY)), XX), YYYY))
             M == FAdd(FMul(3, XX), FMul(CurveA, FSq(ZZ)))
             T == FSub(FSq(M), FMul(2, S))
         IN  JacPoint(T,
                      FSub(FMul(M, FSub(S, T)), FMul(8, YYYY)),
                      FMul(2, FMul(p.y, p.z)))

\* Neg
neg(p) == JacPoint(p.x, FNeg(p.y), p.z)

\* Add<Self>
add(p, q) ==
    IF p.z = 0 THEN q
    ELSE IF q.z = 0 THEN p
    ELSE LET Z1Z1 == FSq(p.z)
             Z2Z2 == FSq(q.z)
             U1 == FMul(p.x, Z2Z2)
             U2 == FMul(q.x, Z1Z1)
             S1 == FMul(p.y, FMul(q.z, Z2Z2))
             S2 == FMul(q.y, FMul(p.z, Z1Z1))
             H == FSub(U2, U1)
             R == FSub(S2, S1)
             HH == FSq(H)
             HHH == FMul(H, HH)
             V == FMul(U1, HH)
             X3 == FSub(FSub(FSq(R), HHH), FMul(2, V))
         IN  IF H = 0
             THEN (IF R = 0 THEN double(p) ELSE identity)
             ELSE JacPoint(X3,
                           FSub(FMul(R, FSub(V, X3)), FMul(S1, HHH)),
                           FMul(H, FMul(p.z, q.z)))

\* Sub<Self>
sub(p, q) == add(p, neg(q))

\* Mul<Scalar>: double and add
RECURSIVE mul(_, _)
mul(p, n) ==
    IF n = 0 THEN identity
    ELSE IF n % 2 = 1 THEN add(double(mul(p, n \div 2)), p)
    ELSE double(mul(p, n \div 2))

\* Curve::endo
endo(p) == JacPoint(FMul(Zeta, p.x), p.y, p.z)

\* a generator of the full curve group (order 21)
FullGenerator == JacPoint(4, 7, 1)

\* Group::generator: a fixed generator of the prime-order subgroup
generator == mul(FullGenerator, CofactorH)

\* <Curve as Default>::default(): the identity
default_point == identity

\* <Curve as ConditionallySelectable>::conditional_select
conditional_select(a, b, choice) ==
    JacPoint(F_conditional_select(a.x, b.x, choice),
             F_conditional_select(a.y, b.y, choice),
             F_conditional_select(a.z, b.z, choice))

\* Cofactor::is_torsion_free: r * p is the identity (a test of its own, not
\* derived from clear_cofactor)
is_torsion_free(p) == is_identity(mul(p, SubgroupR))

(***************************************************************************)
(* Encoding: Repr is one byte.  Bits 0-4 hold x, bit 5 is unused, bit 6 is *)
(* the parity of y, bit 7 flags the point at infinity in an implementation *)
(* that supports encoding the identity.                                    *)
(***************************************************************************)
Bytes == 0 .. 255

ReprX(b) == b % 64

ReprSign(b) == (b \div 64) % 2

ReprInf(b) == b \div 128

\* Faulty variant: the parity of y is not written.
to_bytes_NoSign(p) ==
    IF p.inf THEN (IF identityEncodable THEN 128 ELSE 0) ELSE p.x

\* Encoding::to_bytes.  An implementation that does not support the identity
\* writes the all-zero default encoding for it.
to_bytes(p) ==
    IF p.inf THEN (IF identityEncodable THEN 128 ELSE 0)
    ELSE p.x + 64 * (p.y % 2)

\* the candidate square root of x^3 + a x + b with the encoded parity
DecodeY(b) ==
    LET x == ReprX(b)
        y0 == FPow(FAdd(FAdd(FCube(x), FMul(CurveA, x)), CurveB), (P + 1) \div 4)
    IN  IF y0 % 2 = ReprSign(b) THEN y0 ELSE FNeg(y0)

\* Encoding::from_bytes_unchecked: parses the fields, does not check that the
\* candidate root is a root nor that the point is in the subgroup
from_bytes_unchecked(b) ==
    IF ReprInf(b) = 1
    THEN (IF identityEncodable THEN Some(AffineIdentity) ELSE None(AffineIdentity))
    ELSE IF ReprX(b) >= P THEN None(AffineIdentity)
    ELSE Some(AffinePoint(ReprX(b), DecodeY(b)))

\* Encoding::from_bytes
from_bytes(b) ==
    LET u == from_bytes_unchecked(b)
    IN  IF ~u.is_some THEN u
        ELSE IF u.value.inf
        THEN (IF b = 128 THEN u ELSE None(AffineIdentity))
        ELSE IF /\ affine_is_on_curve(u.value)
                /\ u.value.y % 2 = ReprSign(b)
                /\ is_torsion_free(to_curve(u.value))
        THEN u
        ELSE None(AffineIdentity)

(***************************************************************************)
(* Coordinates<C> and CoordinatesJac<C>                                    *)
(***************************************************************************)
\* CtOption::map(f): the flag is kept, f is applied to the payload
CtMap(o, v) == [is_some |-> o.is_some, value |-> v]

\* Coordinates::new
Coordinates_new(x, y) == CtMap(affine_from_coordinates(x, y), [x |-> x, y |-> y])

\* #[derive(Default)] for Coordinates
Coordinates_default == [x |-> FDefault, y |-> FDefault]

\* Faulty variant: the y-coordinate is selected with its arguments swapped.
Coordinates_conditional_select_SwappedY(a, b, choice) ==
    [x |-> F_conditional_select(a.x, b.x, choice),
     y |-> F_conditional_select(b.y, a.y, choice)]

\* <Coordinates as ConditionallySelectable>::conditional_select
Coordinates_conditional_select(a, b, choice) ==
    [x |-> F_conditional_select(a.x, b.x, choice),
     y |-> F_conditional_select(a.y, b.y, choice)]

\* CoordinatesJac::new
CoordinatesJac_new(x, y, z) ==
    CtMap(from_coordinates(x, y, z), [x |-> x, y |-> y, z |-> z])

\* #[derive(Default)] for CoordinatesJac
CoordinatesJac_default == [x |-> FDefault, y |-> FDefault, z |-> FDefault]

\* <CoordinatesJac as ConditionallySelectable>::conditional_select
CoordinatesJac_conditional_select(a, b, choice) ==
    [x |-> F_conditional_select(a.x, b.x, choice),
     y |-> F_conditional_select(a.y, b.y, choice),
     z |-> F_conditional_select(a.z, b.z, choice)]

\* CurveAffine::coordinates: no value exactly for the identity
affine_coordinates(p) ==
    [is_some |-> ~affine_is_identity(p), value |-> [x |-> p.x, y |-> p.y]]

\* Curve::coordinates: no value exactly for the identity
coordinates(p) ==
    [is_some |-> ~is_identity(p), value |-> [x |-> p.x, y |-> p.y, z |-> p.z]]

(***************************************************************************)
(* Curve::batch_normalize                                                  *)
(***************************************************************************)
\* Faulty variant: the loop stops one element early.
RECURSIVE batch_loop_StopsEarly(_, _, _)
batch_loop_StopsEarly(p, q, i) ==
    IF i >= Len(p) \/ i > Len(q) THEN q
    ELSE batch_loop_StopsEarly(p, [q EXCEPT ![i] = to_affine(p[i])], i + 1)

\* for (p, q) in p.iter().zip(q.iter_mut()) { *q = p.to_affine(); }
\* from position i on; zip ends with the shorter side
RECURSIVE batch_loop(_, _, _)
batch_loop(p, q, i) ==
    IF i > Len(p) \/ i > Len(q) THEN q
    ELSE batch_loop(p, [q EXCEPT ![i] = to_affine(p[i])], i + 1)

\* Faulty variant: the length assertion is missing, zip silently truncates.
batch_normalize_NoAssert(p, q) == [panicked |-> FALSE, q |-> batch_loop(p, q, 1)]

\* Curve::batch_normalize(p, q): the outcome and the contents of q after it
batch_normalize(p, q) ==
    IF Len(p) # Len(q) THEN [panicked |-> TRUE, q |-> q]
    ELSE [panicked |-> FALSE, q |-> batch_loop(p, q, 1)]

(***************************************************************************)
(* The point machine.  One register holds a point, affine or projective    *)
(* (kind), with a mark telling whether the value derives from an           *)
(* "unchecked" entry point.  The second operand of a binary operation is a *)
(* fresh value of a safe constructor.  last records the last conversion.   *)
(***************************************************************************)
\* largest z drawn for Curve::from_coordinates
MaxZ == 2

\* scalars drawn for Mul
MaxScalar == 6

GroupOrder == CofactorH * SubgroupR

\* Group::random(rng): the rng's draw n picks a non-identity element
random(n) == mul(FullGenerator, 1 + (n % (GroupOrder - 1)))

\* the values a caller can pass as a second operand: any element of the group
Operands == {identity} \cup {random(n) : n \in 0 .. (GroupOrder - 2)}

NoConversion == [op |-> "none"]

Set(k, v, u, l) ==
    /\ kind' = k
    /\ val' = v
    /\ unchecked' = u
    /\ last' = l
    /\ UNCHANGED <<identityEncodable, batchVars, coordVars, cofVars, encVars>>

\* A constructor does not read the register.  The ones that take an input are
\* taken from the cleared register (which Identity reaches from every state),
\* so that their inputs are enumerated once and not once per state.
Cleared == kind = "curve" /\ val = identity /\ ~unchecked /\ last = NoConversion

Identity ==
    /\ kind \in {"curve", "affine"}
    /\ Set("curve", identity, FALSE, NoConversion)

Generator ==
    /\ kind \in {"curve", "affine"}
    /\ Set("curve", generator, FALSE, NoConversion)

Random ==
    /\ Cleared
    /\ \E n \in 0 .. (GroupOrder - 2) : Set("curve", random(n), FALSE, NoConversion)

Default ==
    /\ kind \in {"curve", "affine"}
    /\ Set("curve", default_point, FALSE, NoConversion)

FromCoordinatesAffine ==
    /\ Cleared
    /\ \E x \in Fp, y \in Fp :
          /\ affine_from_coordinates(x, y).is_some
          /\ Set("affine", affine_from_coordinates(x, y).value, FALSE, NoConversion)

FromCoordinates ==
    /\ Cleared
    /\ \E x \in Fp, y \in Fp, z \in 0 .. MaxZ :
          /\ from_coordinates(x, y, z).is_some
          /\ Set("curve", from_coordinates(x, y, z).value, FALSE, NoConversion)

FromBytes ==
    /\ Cleared
    /\ \E b \in Bytes :
          /\ from_bytes(b).is_some
          /\ Set("affine", from_bytes(b).value, FALSE, NoConversion)

FromBytesUnchecked ==
    /\ Cleared
    /\ \E b \in Bytes :
          /\ from_bytes_unchecked(b).is_some
          /\ Set("affine", from_bytes_unchecked(b).value, TRUE, NoConversion)

Add ==
    /\ kind = "curve"
    /\ \E q \in Operands : Set("curve", add(val, q), unchecked, NoConversion)

Sub ==
    /\ kind = "curve"
    /\ \E q \in Operands : Set("curve", sub(val, q), unchecked, NoConversion)

AddAffine ==
    /\ kind = "affine"
    /\ \E q \in Operands : Set("curve", add(q, to_curve(val)), unchecked, NoConversion)

Neg ==
    /\ kind = "curve"
    /\ Set("curve", neg(val), unchecked, NoConversion)

Mul ==
    /\ kind = "curve"
    /\ \E n \in 0 .. MaxScalar : Set("curve", mul(val, n), unchecked, NoConversion)

Double ==
    /\ kind = "curve"
    /\ Set("curve", double(val), unchecked, NoConversion)

Endo ==
    /\ kind = "curve"
    /\ Set("curve", endo(val), unchecked, NoConversion)

EndoAffine ==
    /\ kind = "affine"
    /\ Set("affine", affine_endo(val), unchecked, NoConversion)

ToAffine ==
    /\ kind = "curve"
    /\ Set("affine", to_affine(val), unchecked,
           [op |-> "to_affine", arg_is_identity |-> is_identity(val),
            res |-> to_affine(val),
            round_trip |-> last.op = "to_curve",
            origin |-> IF last.op = "to_curve" THEN last.arg ELSE AffineIdentity])

ToCurve ==
    /\ kind = "affine"
    /\ Set("curve", to_curve(val), unchecked,
           [op |-> "to_curve", arg |-> val, res |-> to_curve(val)])

BatchNormalizeOne ==
    /\ kind = "curve"
    /\ \E q \in {AffineIdentity, to_affine(generator)} :
          Set("affine", batch_normalize(<<val>>, <<q>>).q[1], unchecked, NoConversion)

ConditionalSelect ==
    /\ kind = "curve"
    /\ \E c \in Choices, q \in Operands :
          Set("curve", conditional_select(val, q, c),
              IF c = 1 THEN FALSE ELSE unchecked, NoConversion)

Next ==
    \/ Identity
    \/ Generator
    \/ Random
    \/ Default
    \/ FromCoordinatesAffine
    \/ FromCoordinates
    \/ FromBytes
    \/ FromBytesUnchecked
    \/ Add
    \/ Sub
    \/ AddAffine
    \/ Neg
    \/ Mul
    \/ Double
    \/ Endo
    \/ EndoAffine
    \/ ToAffine
    \/ ToCurve
    \/ BatchNormalizeOne
    \/ ConditionalSelect

(***************************************************************************)
(* The batch machine: a caller fills a slice p of projective points and an *)
(* output slice q of affine points, then calls Curve::batch_normalize.     *)
(***************************************************************************)
\* longest slice
MaxLen == 2

\* largest multiple of the generator among the slice elements
MaxBatchScalar == 3

\* the elements a caller puts into p: two representations of the identity and
\* points with z = 1 and z # 1
BatchPoints ==
    {identity, JacPoint(4, 8, 0)} \cup {mul(FullGenerator, n) : n \in 1 .. MaxBatchScalar}

\* what q may hold before the call
BatchOutputs == {AffineIdentity, to_affine(FullGenerator), to_affine(generator)}

PushP ==
    /\ bstatus = "building"
    /\ Len(bp) < MaxLen
    /\ \E v \in BatchPoints : bp' = Append(bp, v)
    /\ UNCHANGED <<bq, bq0, bstatus>>
    /\ UNCHANGED <<identityEncodable, pointVars, coordVars, cofVars, encVars>>

PushQ ==
    /\ bstatus = "building"
    /\ Len(bq) < MaxLen
    /\ \E v \in BatchOutputs : bq' = Append(bq, v)
    /\ UNCHANGED <<bp, bq0, bstatus>>
    /\ UNCHANGED <<identityEncodable, pointVars, coordVars, cofVars, encVars>>

BatchNormalize ==
    /\ bstatus = "building"
    /\ bq0' = bq
    /\ bq' = batch_normalize(bp, bq).q
    /\ bstatus' = IF batch_normalize(bp, bq).panicked THEN "panicked" ELSE "returned"
    /\ UNCHANGED bp
    /\ UNCHANGED <<identityEncodable, pointVars, coordVars, cofVars, encVars>>

BatchNext == PushP \/ PushQ \/ BatchNormalize

(***************************************************************************)
(* The coordinates machine: two registers ca, cb of Coordinates values     *)
(* (ckind = "affine") or CoordinatesJac values (ckind = "jac") obtained    *)
(* through the public interface, and the result cr of the last selection.  *)
(***************************************************************************)
\* largest z drawn for CoordinatesJac::new
MaxCoordZ == 1

NoSelection == [done |-> FALSE]

CoordinatesNew ==
    /\ ckind = "affine"
    /\ \E x \in Fp, y \in Fp :
          /\ Coordinates_new(x, y).is_some
          /\ ca' = Coordinates_new(x, y).value
    /\ cr' = NoSelection
    /\ UNCHANGED <<ckind, cb>>
    /\ UNCHANGED <<identityEncodable, pointVars, batchVars, cofVars, encVars>>

CoordinatesJacNew ==
    /\ ckind = "jac"
    /\ \E x \in Fp, y \in Fp, z \in 0 .. MaxCoordZ :
          /\ CoordinatesJac_new(x, y, z).is_some
          /\ ca' = CoordinatesJac_new(x, y, z).value
    /\ cr' = NoSelection
    /\ UNCHANGED <<ckind, cb>>
    /\ UNCHANGED <<identityEncodable, pointVars, batchVars, cofVars, encVars>>

CoordinatesDefault ==
    /\ ca' = IF ckind = "affine" THEN Coordinates_default ELSE CoordinatesJac_default
    /\ cr' = NoSelection
    /\ UNCHANGED <<ckind, cb>>
    /\ UNCHANGED <<identityEncodable, pointVars, batchVars, cofVars, encVars>>

\* Clone / Copy
CoordinatesCopy ==
    /\ cb' = ca
    /\ cr' = NoSelection
    /\ UNCHANGED <<ckind, ca>>
    /\ UNCHANGED <<identityEncodable, pointVars, batchVars, cofVars, encVars>>

CoordinatesSelect ==
    /\ \E c \in Choices :
          cr' = [done |-> TRUE, choice |-> c,
                 out |-> IF ckind = "affine"
                         THEN Coordinates_conditional_select(ca, cb, c)
                         ELSE CoordinatesJac_conditional_select(ca, cb, c)]
    /\ UNCHANGED <<ckind, ca, cb>>
    /\ UNCHANGED <<identityEncodable, pointVars, batchVars, cofVars, encVars>>

\* the selected value is kept
CoordinatesKeep ==
    /\ cr.done
    /\ ca' = cr.out
    /\ cr' = NoSelection
    /\ UNCHANGED <<ckind, cb>>
    /\ UNCHANGED <<identityEncodable, pointVars, batchVars, cofVars, encVars>>

CoordNext ==
    \/ CoordinatesNew
    \/ CoordinatesJacNew
    \/ CoordinatesDefault
    \/ CoordinatesCopy
    \/ CoordinatesSelect
    \/ CoordinatesKeep

(***************************************************************************)
(* Cofactor: the full curve group (order h * r) with its prime-order       *)
(* subgroup as Cofactor::Subgroup.  cfK is the implementor's fixed         *)
(* multiplier, a multiple of the cofactor.                                 *)
(***************************************************************************)
\* a value of type Self::Subgroup, and its embedding Into<Self>
Subgroup(p) == [sub |-> p]

embed(s) == s.sub

\* <Self::Subgroup as Group>::is_identity
subgroup_is_identity(s) == is_identity(s.sub)

\* Faulty variant: the multiplier is off by one.
clear_cofactor_OffByOne(p) == Subgroup(mul(p, cfK + 1))

\* Cofactor::clear_cofactor: multiplication by the fixed multiplier
clear_cofactor(p) == Subgroup(mul(p, cfK))

\* membership in the prime-order subgroup, by comparison with its elements
InPrimeSubgroup(p) == \E i \in 0 .. (SubgroupR - 1) : PEq(p, mul(generator, i))

\* Faulty variant: membership is taken to be "not of small order".
into_subgroup_NotSmallOrder(p) ==
    IF ~subgroup_is_identity(clear_cofactor(p))
    THEN Some(Subgroup(p)) ELSE None(Subgroup(identity))

\* Cofactor::into_subgroup: self, if it is contained in the prime-order subgroup
into_subgroup(p) ==
    IF InPrimeSubgroup(p) THEN Some(Subgroup(p)) ELSE None(Subgroup(identity))

\* Faulty variant: the element itself is tested, not its image.
is_small_order_OfSelf(p) == is_identity(p)

\* Cofactor::is_small_order (provided method)
is_small_order(p) == subgroup_is_identity(clear_cofactor(p))

\* largest m for a multiplier k = h * m
MaxMultiplier == 8

\* the multipliers an implementor may fix: multiples of the cofactor that do
\* not annihilate the prime-order subgroup
Multipliers ==
    {CofactorH * m : m \in {n \in 1 .. MaxMultiplier : n % SubgroupR # 0}}

NoResult == [op |-> "none"]

CofPick ==
    /\ \E q \in Operands : cfP' = q
    /\ cfRes' = NoResult
    /\ UNCHANGED cfK
    /\ UNCHANGED <<identityEncodable, pointVars, batchVars, coordVars, encVars>>

ClearCofactor ==
    /\ cfRes' = [op |-> "clear_cofactor", res |-> clear_cofactor(cfP)]
    /\ UNCHANGED <<cfK, cfP>>
    /\ UNCHANGED <<identityEncodable, pointVars, batchVars, coordVars, encVars>>

IntoSubgroup ==
    /\ cfRes' = [op |-> "into_subgroup", res |-> into_subgroup(cfP)]
    /\ UNCHANGED <<cfK, cfP>>
    /\ UNCHANGED <<identityEncodable, pointVars, batchVars, coordVars, encVars>>

IsSmallOrder ==
    /\ cfRes' = [op |-> "is_small_order", res |-> is_small_order(cfP)]
    /\ UNCHANGED <<cfK, cfP>>
    /\ UNCHANGED <<identityEncodable, pointVars, batchVars, coordVars, encVars>>

IsTorsionFree ==
    /\ cfRes' = [op |-> "is_torsion_free", res |-> is_torsion_free(cfP)]
    /\ UNCHANGED <<cfK, cfP>>
    /\ UNCHANGED <<identityEncodable, pointVars, batchVars, coordVars, encVars>>

CofNext ==
    \/ CofPick
    \/ ClearCofactor
    \/ IntoSubgroup
    \/ IsSmallOrder
    \/ IsTorsionFree

(***************************************************************************)
(* The encoding machine: a point ep, an encoding enc (fromPoint tells      *)
(* whether it is to_bytes(ep)) and the result dec of decoding enc.         *)
(***************************************************************************)
NotDecoded == [done |-> FALSE]

\* any point of the curve
EncPick ==
    /\ \E q \in Operands : ep' = to_affine(q)
    /\ enc' = 0
    /\ fromPoint' = FALSE
    /\ dec' = NotDecoded
    /\ UNCHANGED <<identityEncodable, pointVars, batchVars, coordVars, cofVars>>

ToBytes ==
    /\ enc' = to_bytes(ep)
    /\ fromPoint' = TRUE
    /\ dec' = NotDecoded
    /\ UNCHANGED ep
    /\ UNCHANGED <<identityEncodable, pointVars, batchVars, coordVars, cofVars>>

\* any byte string, taken once (from the initial point) and not once per point
AnyBytes ==
    /\ ep = AffineIdentity
    /\ \E b \in Bytes : enc' = b
    /\ fromPoint' = FALSE
    /\ dec' = NotDecoded
    /\ UNCHANGED ep
    /\ UNCHANGED <<identityEncodable, pointVars, batchVars, coordVars, cofVars>>

DecodeBytes ==
    /\ dec' = [done |-> TRUE, res |-> from_bytes(enc)]
    /\ UNCHANGED <<ep, enc, fromPoint>>
    /\ UNCHANGED <<identityEncodable, pointVars, batchVars, coordVars, cofVars>>

EncNext == EncPick \/ ToBytes \/ AnyBytes \/ DecodeBytes

(***************************************************************************)
(* Specifications.  Each initial predicate starts one machine and puts the *)
(* others to rest.                                                         *)
(***************************************************************************)
Init ==
    /\ identityEncodable \in BOOLEAN
    /\ kind = "curve"
    /\ val = identity
    /\ unchecked = FALSE
    /\ last = NoConversion
    /\ bp = <<>>
    /\ bq = <<>>
    /\ bq0 = <<>>
    /\ bstatus = "building"
    /\ ckind = "affine"
    /\ ca = IF ckind = "affine"
            THEN Coordinates_new(FullGenerator.x, FullGenerator.y).value
            ELSE CoordinatesJac_new(FullGenerator.x, FullGenerator.y, FullGenerator.z).value
    /\ cb = ca
    /\ cr = NoSelection
    /\ cfK = CofactorH
    /\ cfP = identity
    /\ cfRes = NoResult
    /\ ep = AffineIdentity
    /\ enc = 0
    /\ fromPoint = FALSE
    /\ dec = NotDecoded

InitBatch ==
    /\ identityEncodable = TRUE
    /\ kind = "curve"
    /\ val = identity
    /\ unchecked = FALSE
    /\ last = NoConversion
    /\ bp = <<>>
    /\ bq = <<>>
    /\ bq0 = <<>>
    /\ bstatus = "building"
    /\ ckind = "affine"
    /\ ca = IF ckind = "affine"
            THEN Coordinates_new(FullGenerator.x, FullGenerator.y).value
            ELSE CoordinatesJac_new(FullGenerator.x, FullGenerator.y, FullGenerator.z).value
    /\ cb = ca
    /\ cr = NoSelection
    /\ cfK = CofactorH
    /\ cfP = identity
    /\ cfRes = NoResult
    /\ ep = AffineIdentity
    /\ enc = 0
    /\ fromPoint = FALSE
    /\ dec = NotDecoded

InitCoordinates ==
    /\ identityEncodable = TRUE
    /\ kind = "curve"
    /\ val = identity
    /\ unchecked = FALSE
    /\ last = NoConversion
    /\ bp = <<>>
    /\ bq = <<>>
    /\ bq0 = <<>>
    /\ bstatus = "building"
    /\ ckind \in {"affine", "jac"}
    /\ ca = IF ckind = "affine"
            THEN Coordinates_new(FullGenerator.x, FullGenerator.y).value
            ELSE CoordinatesJac_new(FullGenerator.x, FullGenerator.y, FullGenerator.z).value
    /\ cb = ca
    /\ cr = NoSelection
    /\ cfK = CofactorH
    /\ cfP = identity
    /\ cfRes = NoResult
    /\ ep = AffineIdentity
    /\ enc = 0
    /\ fromPoint = FALSE
    /\ dec = NotDecoded

InitCofactor ==
    /\ identityEncodable = TRUE
    /\ kind = "curve"
    /\ val = identity
    /\ unchecked = FALSE
    /\ last = NoConversion
    /\ bp = <<>>
    /\ bq = <<>>
    /\ bq0 = <<>>
    /\ bstatus = "building"
    /\ ckind = "affine"
    /\ ca = IF ckind = "affine"
            THEN Coordinates_new(FullGenerator.x, FullGenerator.y).value
            ELSE CoordinatesJac_new(FullGenerator.x, FullGenerator.y, FullGenerator.z).value
    /\ cb = ca
    /\ cr = NoSelection
    /\ cfK \in Multipliers
    /\ cfP = identity
    /\ cfRes = NoResult
    /\ ep = AffineIdentity
    /\ enc = 0
    /\ fromPoint = FALSE
    /\ dec = NotDecoded

InitEncoding ==
    /\ identityEncodable \in BOOLEAN
    /\ kind = "curve"
    /\ val = identity
    /\ unchecked = FALSE
    /\ last = NoConversion
    /\ bp = <<>>
    /\ bq = <<>>
    /\ bq0 = <<>>
    /\ bstatus = "building"
    /\ ckind = "affine"
    /\ ca = IF ckind = "affine"
            THEN Coordinates_new(FullGenerator.x, FullGenerator.y).value
            ELSE CoordinatesJac_new(FullGenerator.x, FullGenerator.y, FullGenerator.z).value
    /\ cb = ca
    /\ cr = NoSelection
    /\ cfK = CofactorH
    /\ cfP = identity
    /\ cfRes = NoResult
    /\ ep = AffineIdentity
    /\ enc = 0
    /\ fromPoint = FALSE
    /\ dec = NotDecoded

Spec == Init /\ [][Next]_vars

SpecBatch == InitBatch /\ [][BatchNext]_vars

SpecCoordinates == InitCoordinates /\ [][CoordNext]_vars

SpecCofactor == InitCofactor /\ [][CofNext]_vars

SpecEncoding == InitEncoding /\ [][EncNext]_vars

(***************************************************************************)
(* Properties                                                              *)
(***************************************************************************)
\* n * p by repeated addition (an evaluation independent of double-and-add)
RECURSIVE times(_, _)
times(p, n) == IF n = 0 THEN identity ELSE add(times(p, n - 1), p)

\* whether a Coordinates / CoordinatesJac value holds a tuple that the
\* matching from_coordinates accepts
CoordOnCurve(c) ==
    IF ckind = "affine"
    THEN affine_from_coordinates(c.x, c.y).is_some
    ELSE from_coordinates(c.x, c.y, c.z).is_some

\* a point that satisfies the invariants of the affine type: on the curve and
\* in the prime-order subgroup
ValidAffine(p) == affine_is_on_curve(p) /\ InPrimeSubgroup(to_curve(p))

\* C1 (under SpecBatch): when batch_normalize(p, q) returns, q has the length
\* of p and q[i] = p[i].to_affine() at every index, whatever q held before
\* (identity points in p and the empty slice included).
C1_BatchNormalizeIsElementwise ==
    bstatus = "returned" =>
        /\ Len(bq) = Len(bp)
        /\ \A i \in 1 .. Len(bp) : bq[i] = to_affine(bp[i])

C1_Witness ==
    /\ bstatus = "returned"
    /\ Len(bp) >= 2
    /\ \E i \in 1 .. Len(bp) : is_identity(bp[i])
    /\ \E i \in 1 .. Len(bp) : ~is_identity(bp[i]) /\ bp[i].z # 1
    /\ \A i \in 1 .. Len(bp) : bq0[i] # bq[i]

\* C2 (under SpecBatch): a call with len(p) # len(q) panics, it does not
\* return, and q is then what it was before the call.
C2_LengthMismatchPanics ==
    (bstatus # "building" /\ Len(bp) # Len(bq0)) =>
        (bstatus = "panicked" /\ bq = bq0)

C2_Witness ==
    /\ bstatus = "panicked"
    /\ Len(bp) > Len(bq0)
    /\ Len(bq0) >= 1
    /\ bq0[1] # to_affine(bp[1])
    /\ bq = bq0

C4_EveryCoordinatesOnCurve ==
    /\ CoordOnCurve(ca)
    /\ CoordOnCurve(cb)
    /\ cr.done => CoordOnCurve(cr.out)

\* C5 (under SpecCofactor), as claimed: for p in the prime-order subgroup,
\* clear_cofactor(p), embedded back, equals p.
C5_ClearCofactorFixesSubgroup ==
    (cfRes.op = "clear_cofactor" /\ InPrimeSubgroup(cfP)) =>
        PEq(embed(cfRes.res), cfP)

\* C5 (under SpecCofactor), as amended: for p in the prime-order subgroup,
\* clear_cofactor(p), embedded back, is k * p, an element of the prime-order
\* subgroup; it equals p exactly when p is the identity or k = 1 (mod r).
C5_ClearCofactorMultipliesByK ==
    (cfRes.op = "clear_cofactor" /\ InPrimeSubgroup(cfP)) =>
        /\ PEq(embed(cfRes.res), times(cfP, cfK))
        /\ InPrimeSubgroup(embed(cfRes.res))
        /\ PEq(embed(cfRes.res), cfP) <=> (is_identity(cfP) \/ cfK % SubgroupR = 1)

C5_Witness ==
    /\ cfRes.op = "clear_cofactor"
    /\ InPrimeSubgroup(cfP)
    /\ ~is_identity(cfP)
    /\ cfK = CofactorH
    /\ PEq(embed(cfRes.res), times(cfP, CofactorH))
    /\ ~PEq(embed(cfRes.res), cfP)

\* C6 (under SpecCofactor): is_torsion_free(p) holds exactly when
\* into_subgroup(p) returns a value, the value embeds back to p itself, and for
\* p outside the prime-order subgroup into_subgroup returns no value while
\* clear_cofactor(p) is an element of the subgroup.
C6_TorsionFreeIffIntoSubgroup ==
    cfRes.op = "into_subgroup" =>
        /\ is_torsion_free(cfP) <=> cfRes.res.is_some
        /\ cfRes.res.is_some => embed(cfRes.res.value) = cfP
        /\ ~InPrimeSubgroup(cfP) =>
              /\ ~cfRes.res.is_some
              /\ is_identity(times(embed(clear_cofactor(cfP)), SubgroupR))

C6_Witness ==
    /\ cfRes.op = "into_subgroup"
    /\ ~cfRes.res.is_some
    /\ ~is_torsion_free(cfP)
    /\ ~is_identity(embed(clear_cofactor(cfP)))

\* C7 (under Spec): every point reached from the safe constructors by the safe
\* operations is on the curve; a point that is not on the curve derives from an
\* "unchecked" entry point.
C7_SafePointsOnCurve ==
    ~unchecked =>
        /\ kind = "curve" => is_on_curve(val)
        /\ kind = "affine" => affine_is_on_curve(val)

C7_Witness ==
    /\ ~unchecked
    /\ kind = "curve"
    /\ val.z > MaxZ
    /\ ~PEq(val, generator)
    /\ is_on_curve(val)

\* C8 (under Spec): to_curve(p).to_affine() = p for every non-identity affine
\* p; the affine identity converts to a projective identity (z = 0) and every
\* projective identity converts to the affine identity; coordinates() returns
\* no value exactly for the identity.
C8_AffineProjectiveRoundTrip ==
    /\ (last.op = "to_affine" /\ last.round_trip /\ ~last.origin.inf) =>
          last.res = last.origin
    /\ (last.op = "to_curve" /\ last.arg.inf) => last.res.z = 0
    /\ (last.op = "to_affine" /\ last.arg_is_identity) => last.res = AffineIdentity
    /\ kind = "affine" => (affine_coordinates(val).is_some <=> ~val.inf)
    /\ kind = "curve" => (coordinates(val).is_some <=> val.z # 0)

C8_Witness ==
    /\ last.op = "to_affine"
    /\ last.round_trip
    /\ ~last.origin.inf
    /\ last.origin.x # 0
    /\ last.res = last.origin

\* C9 (under SpecEncoding), as claimed: from_bytes(to_bytes(p)) returns p for
\* every valid point p, the identity included.
C9_RoundTripEveryValidPoint ==
    (dec.done /\ fromPoint /\ ValidAffine(ep)) => dec.res = Some(ep)

\* C9 (under SpecEncoding), as amended: to_bytes is total; from_bytes(to_bytes(p))
\* returns p for every valid point p other than the identity, and for the
\* identity when the implementation's encoding supports the identity;
\* from_bytes returns no value for an encoding that does not decode to a
\* point on the curve that satisfies the type's invariants.
C9_RoundTripWhereEncodable ==
    /\ enc \in Bytes
    /\ (dec.done /\ fromPoint /\ ValidAffine(ep) /\ (identityEncodable \/ ~ep.inf)) =>
          dec.res = Some(ep)
    /\ (dec.done /\ dec.res.is_some) =>
          /\ ValidAffine(dec.res.value)
          /\ identityEncodable \/ ~dec.res.value.inf

C9_Witness ==
    /\ dec.done
    /\ fromPoint
    /\ ValidAffine(ep)
    /\ ~ep.inf
    /\ dec.res = Some(ep)

\* C10 (under SpecCoordinates): conditional_select(a, b, choice) is a in every
\* component when choice = 0 and b in every component when choice = 1, so a
\* selection between two on-curve tuples is an on-curve tuple.
C10_SelectIsWhole ==
    cr.done =>
        /\ cr.choice = 0 => cr.out = ca
        /\ cr.choice = 1 => cr.out = cb
        /\ (CoordOnCurve(ca) /\ CoordOnCurve(cb)) => CoordOnCurve(cr.out)

C10_Witness ==
    /\ cr.done
    /\ cr.choice = 1
    /\ ca.x # cb.x
    /\ ca.y # cb.y
    /\ CoordOnCurve(ca)
    /\ CoordOnCurve(cb)
    /\ cr.out = cb

=============================================================================
